---- MODULE Spec2Model ----
(***************************************************************************)
(* Botly: a chat assistant with a plain pipeline and a document-grounded   *)
(* (RAG) pipeline, src/botly.py, driven by a Streamlit script,             *)
(* src/botly_ui.py.  A text is a sequence of one-character strings.  The   *)
(* external collaborators (PDF loader and chunker, FAISS index, retriever, *)
(* Ollama model, the disk) are oracles: every result they can hand back,   *)
(* or an exception, is chosen with \E in the action that calls them.       *)
(***************************************************************************)
EXTENDS Integers, Sequences, FiniteSets, TLC

VARIABLES
    session,   \* streamlit session_state: id, messages, document, ... (botly_ui.py 73-79)
    botly,     \* session.botly, the Botly object's mutable fields (botly.py 44, 64-67)
    pc,        \* the method of BotlyUI.ui the running script executes next
    step,      \* ghost: library calls made, and the exception raised, by the latest step
    last       \* ghost: the latest reply operation, its calls and its response

vars == <<session, botly, pc, step, last>>

----------------------------------------------------------------------------
(* Bounds of the model *)

MaxChunks == 2       \* chunks the loader and splitter produce from one PDF
MaxMessages == 4     \* turns kept in session.messages
MaxAffix == 1        \* characters before and after the four-character core of a unit query
MaxFormatDocs == 3   \* documents handed to format_documents in the unit specification

----------------------------------------------------------------------------
(* Python values *)

\* None, where the field otherwise holds a file handle or a path
None == "None"
\* None, where the field otherwise holds a text
NoneText == <<"None">>
\* None, where the field otherwise holds a list of documents or an index
NoneDocs == << <<"None">> >>
\* an exception, where a library call otherwise returns a text
RaisedText == <<"raise">>
\* an exception, where a library call otherwise returns a list of documents
RaisedDocs == << <<"raise">> >>

\* vector_search_kwargs["k"]
TopK == 3

Refusal == <<
       "S", "o", "r", "r", "y", ",", " ", "I", " ", "c", "a", "n",
       "n", "o", "t", " ", "f", "i", "n", "d", " ", "a", "n", "y",
       " ", "a", "t", "t", "a", "c", "h", "e", "d", " ", "P", "D",
       "F", " ", "t", "o", " ", "t", "h", "i", "s", " ", "c", "o",
       "n", "v", "e", "r", "s", "a", "t", "i", "o", "n", "." >>

\* the literal "@pdf" of the marker test
Marker == <<"@", "p", "d", "f">>

\* the separator of format_documents, "\n\n"
Separator == <<"\n", "\n">>

----------------------------------------------------------------------------
(* Inputs and oracle results *)

\* the files the uploader widget can return
Files == {"doc.pdf"}

\* page_content of the i-th chunk of the uploaded PDF
Chunk(i) == [j \in 1..i |-> "a"]

\* the prompts typed into chat_input in the session specification
Prompts == { <<"H", "i">>, <<"Q", " ", "@", "P", "d", "F">> }

\* what the model chain can generate (StrOutputParser output)
ModelOutputs == { <<"o", "k">> }

RECURSIVE SeqsUpTo(_, _)
SeqsUpTo(S, n) ==
    IF n = 0 THEN { <<>> }
    ELSE LET shorter == SeqsUpTo(S, n - 1)
         IN shorter \cup { Append(s, x) : s \in { t \in shorter : Len(t) = n - 1 }, x \in S }

\* the characters of the four-character core of a unit query
CoreAlphabet == {"@", "p", "P", "d", "D", "f", "F"}

\* the queries of the unit specification: every four-character core, with up to
\* MaxAffix other characters before it and after it
UnitQueries ==
    { pre \o <<c[1], c[2], c[3], c[4]>> \o post :
        pre \in SeqsUpTo({"x"}, MaxAffix), post \in SeqsUpTo({"x"}, MaxAffix),
        c \in CoreAlphabet \X CoreAlphabet \X CoreAlphabet \X CoreAlphabet }

\* page_content of the documents handed to format_documents in the unit specification
FormatTexts == { <<>>, <<"a">>, <<"b", "\n">> }

FormatInputs == SeqsUpTo(FormatTexts, MaxFormatDocs)

\* what loader.load() and split_documents can produce from the PDF: its first
\* chunks, none for a PDF without pages
ChunkLists == { [i \in 1..n |-> Chunk(i)] : n \in 0..MaxChunks }

Min(a, b) == IF a < b THEN a ELSE b

\* the ranked results a retriever over `index` can return for a query: up to k
\* of its entries, each at most once, in the order the similarity search ranks them
Retrievals(index, k) ==
    { [i \in 1..Len(p) |-> index[p[i]]] :
        p \in { q \in SeqsUpTo(1..Len(index), Min(k, Len(index))) :
                  \A i, j \in 1..Len(q) : i # j => q[i] # q[j] } }

----------------------------------------------------------------------------
(* Pure functions *)

\* mutant: the query is not lower-cased
LowerIdentity(text) == text

\* str.lower() of one character, on the characters the model's texts use
LowerChar(c) ==
    CASE c = "P" -> "p"
      [] c = "D" -> "d"
      [] c = "F" -> "f"
      [] c = "Q" -> "q"
      [] c = "X" -> "x"
      [] c = "S" -> "s"
      [] c = "I" -> "i"
      [] c = "H" -> "h"
      [] OTHER -> c

\* str.lower()
Lower(text) == [i \in 1..Len(text) |-> LowerChar(text[i])]

\* Python's `sub in text` on strings
Contains(sub, text) ==
    \E i \in 0..(Len(text) - Len(sub)) : SubSeq(text, i + 1, i + Len(sub)) = sub

\* "\n\n".join(document.page_content for document in documents)
RECURSIVE Join(_)
Join(documents) ==
    IF documents = <<>> THEN <<>>
    ELSE IF Len(documents) = 1 THEN documents[1]
    ELSE documents[1] \o Separator \o Join(Tail(documents))

\* one library call: its name, the documents it took or returned, and the
\* context and question texts handed to it (NoneDocs, NoneText where it has none)
Call(op, documents, context, question) ==
    [op |-> op, documents |-> documents, context |-> context, question |-> question]

----------------------------------------------------------------------------
(* Botly, src/botly.py.  A method is an operator from the object's fields  *)
(* and the oracle results to the fields after it, the calls it made and    *)
(* the stage that raised ("none" when it returned).                        *)

\* Botly.__init__: the fields the methods below read or write
FreshBotly ==
    [ reply |-> <<>>,
      documents |-> NoneDocs,
      formated_context_documents |-> NoneText,
      vector_store |-> NoneDocs,
      have_document |-> FALSE ]

\* mutant: the texts joined by a single newline
format_documents_one_newline(b, documents) ==
    LET RECURSIVE JoinOne(_)
        JoinOne(ds) == IF ds = <<>> THEN <<>>
                       ELSE IF Len(ds) = 1 THEN ds[1]
                       ELSE ds[1] \o <<"\n">> \o JoinOne(Tail(ds))
    IN [b EXCEPT !.formated_context_documents = JoinOne(documents)]

format_documents(b, documents) ==
    [b EXCEPT !.formated_context_documents = Join(documents)]

\* loaded: what loader.load() and split_documents produce, or RaisedDocs
document_consumer(b, loaded) ==
    IF loaded = RaisedDocs
    THEN [botly |-> b, raised |-> "document_consumer"]
    ELSE [botly |-> [b EXCEPT !.documents = loaded], raised |-> "none"]

\* mutant: the index is assigned chunk by chunk, and a failing embedding leaves
\* the chunks indexed so far
vector_store_generator_partial(b, embedded) ==
    IF b.documents = NoneDocs \/ b.documents = <<>>
    THEN [botly |-> b, raised |-> "vector_store_generator"]
    ELSE IF ~embedded
    THEN [botly |-> [b EXCEPT !.vector_store = SubSeq(b.documents, 1, Len(b.documents) - 1)],
          raised |-> "vector_store_generator"]
    ELSE [botly |-> [b EXCEPT !.vector_store = b.documents], raised |-> "none"]

\* embedded: whether the embedding of every chunk succeeds; FAISS.from_documents
\* raises on None and on an empty list (it reads the first embedding's length)
vector_store_generator(b, embedded) ==
    IF b.documents = NoneDocs \/ b.documents = <<>> \/ ~embedded
    THEN [botly |-> b, raised |-> "vector_store_generator"]
    ELSE [botly |-> [b EXCEPT !.vector_store = b.documents], raised |-> "none"]

\* mutant: the retrieved documents are not formatted, and the field keeps the
\* context of an earlier query
context_generator_unformatted(b, query, retrieved) ==
    IF b.vector_store = NoneDocs
    THEN [botly |-> b, calls |-> <<>>, raised |-> "as_retriever"]
    ELSE IF retrieved = RaisedDocs
    THEN [botly |-> b,
          calls |-> << Call("retrieve", NoneDocs, NoneText, query) >>,
          raised |-> "retrieve"]
    ELSE [botly |-> b,
          calls |-> << Call("retrieve", retrieved, NoneText, query) >>,
          raised |-> "none"]

\* mutant: a failing retrieval is swallowed and the old context is kept
context_generator_swallow(b, query, retrieved) ==
    IF b.vector_store = NoneDocs
    THEN [botly |-> b, calls |-> <<>>, raised |-> "as_retriever"]
    ELSE IF retrieved = RaisedDocs
    THEN [botly |-> b,
          calls |-> << Call("retrieve", NoneDocs, NoneText, query) >>,
          raised |-> "none"]
    ELSE LET formatted == format_documents(b, retrieved)
         IN [botly |-> formatted,
             calls |-> << Call("retrieve", retrieved, NoneText, query),
                          Call("format_documents", retrieved,
                               formatted.formated_context_documents, NoneText) >>,
             raised |-> "none"]

\* retrieved: what retriever.invoke(query) returns, or RaisedDocs
context_generator(b, query, retrieved) ==
    IF b.vector_store = NoneDocs
    THEN [botly |-> b, calls |-> <<>>, raised |-> "as_retriever"]
    ELSE IF retrieved = RaisedDocs
    THEN [botly |-> b,
          calls |-> << Call("retrieve", NoneDocs, NoneText, query) >>,
          raised |-> "retrieve"]
    ELSE LET formatted == format_documents(b, retrieved)
         IN [botly |-> formatted,
             calls |-> << Call("retrieve", retrieved, NoneText, query),
                          Call("format_documents", retrieved,
                               formatted.formated_context_documents, NoneText) >>,
             raised |-> "none"]

\* rag_chain.invoke({"context": context, "question": question}); generated is the
\* parsed model output, or RaisedText
rag_chain_invoke(context, question, generated) ==
    [ calls |-> << Call("rag_chain", NoneDocs, context, question) >>,
      raised |-> IF generated = RaisedText THEN "rag_chain" ELSE "none",
      output |-> generated ]

\* mutant: the plain chain invoked a second time after the first
normal_chain_invoke_retry(context, generated) ==
    [ calls |-> << Call("normal_chain", NoneDocs, context, NoneText),
                   Call("normal_chain", NoneDocs, context, NoneText) >>,
      raised |-> IF generated = RaisedText THEN "normal_chain" ELSE "none",
      output |-> generated ]

\* normal_chain.invoke({"context": context})
normal_chain_invoke(context, generated) ==
    [ calls |-> << Call("normal_chain", NoneDocs, context, NoneText) >>,
      raised |-> IF generated = RaisedText THEN "normal_chain" ELSE "none",
      output |-> generated ]

\* Botly.botly_reply; response is NoneText when the call raised
botly_reply(b, query0, retrieved, generated) ==
    LET query == Lower(query0)
        b0 == [b EXCEPT !.reply = <<>>]
    IN IF Contains(Marker, query)
       THEN IF ~b0.have_document
            THEN [botly |-> [b0 EXCEPT !.reply = Refusal], calls |-> <<>>,
                  raised |-> "none", response |-> Refusal]
            ELSE LET cg == context_generator(b0, query, retrieved)
                     inv == rag_chain_invoke(cg.botly.formated_context_documents,
                                             query, generated)
                 IN IF cg.raised # "none"
                    THEN [botly |-> cg.botly, calls |-> cg.calls,
                          raised |-> cg.raised, response |-> NoneText]
                    ELSE IF inv.raised # "none"
                    THEN [botly |-> cg.botly, calls |-> cg.calls \o inv.calls,
                          raised |-> inv.raised, response |-> NoneText]
                    ELSE [botly |-> [cg.botly EXCEPT !.reply = inv.output],
                          calls |-> cg.calls \o inv.calls,
                          raised |-> "none", response |-> inv.output]
       ELSE LET inv == normal_chain_invoke(query, generated)
            IN IF inv.raised # "none"
               THEN [botly |-> b0, calls |-> inv.calls,
                     raised |-> inv.raised, response |-> NoneText]
               ELSE [botly |-> [b0 EXCEPT !.reply = inv.output], calls |-> inv.calls,
                     raised |-> "none", response |-> inv.output]

----------------------------------------------------------------------------
(* BotlyUI, src/botly_ui.py *)

\* session.id, uuid4().hex
SessionId == "sid"

\* os.path.join(os.getcwd(), f"{id}.pdf")
PathOf(id) == <<id, ".pdf">>
NonePath == <<None, None>>

\* the session state create_session_state sets up (its Botly() is FreshBotly)
FreshSession ==
    [ id |-> SessionId,
      messages |-> <<>>,
      document |-> None,
      document_path |-> NonePath,
      document_saved |-> FALSE,
      document_uploaded |-> FALSE,
      document_ingested |-> FALSE ]

\* `not self.session`: the session state holds no key
SessionIsEmpty(s) == DOMAIN s = {}

\* mutant: the session state is set up on every run
create_session_state_always(s) == FreshSession

create_session_state(s) == IF SessionIsEmpty(s) THEN FreshSession ELSE s

\* file: what the file_uploader widget returns, None or an uploaded file
upload_document(s, file) ==
    IF ~s.document_uploaded
    THEN LET s1 == [s EXCEPT !.document = file]
         IN IF s1.document # None THEN [s1 EXCEPT !.document_uploaded = TRUE] ELSE s1
    ELSE s

\* mutant: the document is saved whether or not one was uploaded
save_document_unguarded(s, written) ==
    IF ~s.document_saved
    THEN IF ~written
         THEN [session |-> s, raised |-> "save_document"]
         ELSE LET s1 == [s EXCEPT !.document_path = PathOf(s.id)]
              IN [session |-> IF s1.document_path # NonePath
                              THEN [s1 EXCEPT !.document_saved = TRUE] ELSE s1,
                  raised |-> "none"]
    ELSE [session |-> s, raised |-> "none"]

\* written: whether open() and f.write() succeed
save_document(s, written) ==
    IF s.document_uploaded /\ ~s.document_saved
    THEN IF ~written
         THEN [session |-> s, raised |-> "save_document"]
         ELSE LET s1 == [s EXCEPT !.document_path = PathOf(s.id)]
              IN [session |-> IF s1.document_path # NonePath
                              THEN [s1 EXCEPT !.document_saved = TRUE] ELSE s1,
                  raised |-> "none"]
    ELSE [session |-> s, raised |-> "none"]

\* the three outcomes of an ingest that runs
IngestOutcome(s, b, loaded, embedded) ==
    LET consumed == document_consumer(b, loaded)
        indexed == vector_store_generator(consumed.botly, embedded)
    IN IF consumed.raised # "none"
       THEN [session |-> s, botly |-> consumed.botly,
             calls |-> << Call("document_consumer", NoneDocs, NoneText, NoneText) >>,
             raised |-> consumed.raised]
       ELSE IF indexed.raised # "none"
       THEN [session |-> s, botly |-> indexed.botly,
             calls |-> << Call("document_consumer", loaded, NoneText, NoneText),
                          Call("vector_store_generator", NoneDocs, NoneText, NoneText) >>,
             raised |-> indexed.raised]
       ELSE [session |-> [s EXCEPT !.document_ingested = TRUE],
             botly |-> [indexed.botly EXCEPT !.have_document = TRUE],
             calls |-> << Call("document_consumer", loaded, NoneText, NoneText),
                          Call("vector_store_generator", indexed.botly.vector_store,
                               NoneText, NoneText) >>,
             raised |-> "none"]

\* mutant: have_document is set before the document is consumed and indexed
ingest_document_flag_first(s, b, loaded, embedded) ==
    IF s.document_saved /\ s.document_uploaded /\ ~s.document_ingested
    THEN IngestOutcome(s, [b EXCEPT !.have_document = TRUE], loaded, embedded)
    ELSE [session |-> s, botly |-> b, calls |-> <<>>, raised |-> "none"]

\* mutant: the ingest runs again although the document was ingested
ingest_document_again(s, b, loaded, embedded) ==
    IF s.document_saved /\ s.document_uploaded
    THEN IngestOutcome(s, b, loaded, embedded)
    ELSE [session |-> s, botly |-> b, calls |-> <<>>, raised |-> "none"]

ingest_document(s, b, loaded, embedded) ==
    IF s.document_saved /\ s.document_uploaded /\ ~s.document_ingested
    THEN IngestOutcome(s, b, loaded, embedded)
    ELSE [session |-> s, botly |-> b, calls |-> <<>>, raised |-> "none"]

Turn(role, content) == [role |-> role, content |-> content]

\* mutant: the plain chain is handed the prompt as typed, not the lower-cased query
console_reply_raw_prompt(b, prompt, retrieved, generated) ==
    LET query == Lower(prompt)
    IN IF Contains(Marker, query)
       THEN IF ~b.have_document
            THEN [botly |-> b, calls |-> <<>>, raised |-> "none", response |-> Refusal]
            ELSE LET cg == context_generator(b, query, retrieved)
                     inv == rag_chain_invoke(cg.botly.formated_context_documents,
                                             query, generated)
                 IN IF cg.raised # "none"
                    THEN [botly |-> cg.botly, calls |-> cg.calls,
                          raised |-> cg.raised, response |-> NoneText]
                    ELSE [botly |-> cg.botly, calls |-> cg.calls \o inv.calls,
                          raised |-> inv.raised,
                          response |-> IF inv.raised # "none" THEN NoneText ELSE inv.output]
       ELSE LET inv == normal_chain_invoke(prompt, generated)
            IN [botly |-> b, calls |-> inv.calls, raised |-> inv.raised,
                response |-> IF inv.raised # "none" THEN NoneText ELSE inv.output]

\* mutant: the dispatch without the have_document test
console_reply_unguarded(b, prompt, retrieved, generated) ==
    LET query == Lower(prompt)
    IN IF Contains(Marker, query)
       THEN LET cg == context_generator(b, query, retrieved)
                inv == rag_chain_invoke(cg.botly.formated_context_documents,
                                        query, generated)
            IN IF cg.raised # "none"
               THEN [botly |-> cg.botly, calls |-> cg.calls,
                     raised |-> cg.raised, response |-> NoneText]
               ELSE [botly |-> cg.botly, calls |-> cg.calls \o inv.calls,
                     raised |-> inv.raised,
                     response |-> IF inv.raised # "none" THEN NoneText ELSE inv.output]
       ELSE LET inv == normal_chain_invoke(query, generated)
            IN [botly |-> b, calls |-> inv.calls, raised |-> inv.raised,
                response |-> IF inv.raised # "none" THEN NoneText ELSE inv.output]

\* the inline dispatch of user_interaction_console (lines 263-292): as botly_reply,
\* on a local `response`; botly.reply is left alone
console_reply(b, prompt, retrieved, generated) ==
    LET query == Lower(prompt)
    IN IF Contains(Marker, query)
       THEN IF ~b.have_document
            THEN [botly |-> b, calls |-> <<>>, raised |-> "none", response |-> Refusal]
            ELSE LET cg == context_generator(b, query, retrieved)
                     inv == rag_chain_invoke(cg.botly.formated_context_documents,
                                             query, generated)
                 IN IF cg.raised # "none"
                    THEN [botly |-> cg.botly, calls |-> cg.calls,
                          raised |-> cg.raised, response |-> NoneText]
                    ELSE [botly |-> cg.botly, calls |-> cg.calls \o inv.calls,
                          raised |-> inv.raised,
                          response |-> IF inv.raised # "none" THEN NoneText ELSE inv.output]
       ELSE LET inv == normal_chain_invoke(query, generated)
            IN [botly |-> b, calls |-> inv.calls, raised |-> inv.raised,
                response |-> IF inv.raised # "none" THEN NoneText ELSE inv.output]

\* prompt: what chat_input returns, NoneText when nothing was submitted
user_interaction_console(s, b, prompt, retrieved, generated) ==
    IF prompt # NoneText /\ prompt # <<>>
    THEN LET asked == [s EXCEPT !.messages = Append(@, Turn("user", prompt))]
             r == console_reply(b, prompt, retrieved, generated)
         IN IF r.raised # "none"
            THEN [session |-> asked, botly |-> r.botly, calls |-> r.calls,
                  raised |-> r.raised, response |-> NoneText]
            ELSE [session |-> [asked EXCEPT !.messages =
                                   Append(@, Turn("assistant", r.response))],
                  botly |-> r.botly, calls |-> r.calls,
                  raised |-> "none", response |-> r.response]
    ELSE [session |-> s, botly |-> b, calls |-> <<>>, raised |-> "none",
          response |-> NoneText]

----------------------------------------------------------------------------
(* The session: reruns of the script BotlyUI.ui, one method per step.  An   *)
(* exception ends the run; the session state is kept and the next run       *)
(* starts at create_session_state.                                          *)

NoStep == [op |-> "none", calls |-> <<>>, raised |-> "none"]

NoReply ==
    [ op |-> "none", query |-> NoneText, have_document |-> FALSE, calls |-> <<>>,
      raised |-> "none", response |-> NoneText ]

\* what retriever.invoke can hand back in the state b
RetrievalResults(b) ==
    IF b.vector_store = NoneDocs THEN { RaisedDocs }
    ELSE Retrievals(b.vector_store, TopK) \cup { RaisedDocs }

GenerationResults == ModelOutputs \cup { RaisedText }

\* whether the calls include one of the operations ops
Made(calls, ops) == \E i \in 1..Len(calls) : calls[i].op \in ops

\* an oracle the operation never consulted is pinned to one value, so that each
\* outcome is generated once
Consulted(calls, retrieved, generated) ==
    /\ Made(calls, {"retrieve"}) \/ retrieved = RaisedDocs
    /\ Made(calls, {"normal_chain", "rag_chain"}) \/ generated = RaisedText

Init ==
    /\ session = FreshSession
    /\ botly = FreshBotly
    /\ pc = "create_session_state"
    /\ step = NoStep
    /\ last = NoReply

\* create_session_state, then add_bot_details (which only renders)
CreateSessionState ==
    /\ pc = "create_session_state"
    /\ session' = create_session_state(session)
    /\ botly' = IF SessionIsEmpty(session) THEN FreshBotly ELSE botly
    /\ pc' = "upload_document"
    /\ step' = [op |-> "create_session_state", calls |-> <<>>, raised |-> "none"]
    /\ UNCHANGED last

UploadDocument ==
    /\ pc = "upload_document"
    /\ \E file \in Files \cup { None } :
          session' = upload_document(session, file)
    /\ pc' = "save_document"
    /\ step' = [op |-> "upload_document", calls |-> <<>>, raised |-> "none"]
    /\ UNCHANGED <<botly, last>>

SaveDocument ==
    /\ pc = "save_document"
    /\ \E written \in BOOLEAN :
          LET r == save_document(session, written)
          IN /\ session' = r.session
             /\ pc' = IF r.raised # "none" THEN "create_session_state"
                      ELSE "ingest_document"
             /\ step' = [op |-> "save_document", calls |-> <<>>, raised |-> r.raised]
    /\ UNCHANGED <<botly, last>>

IngestDocument ==
    /\ pc = "ingest_document"
    /\ \E loaded \in ChunkLists \cup { RaisedDocs }, embedded \in BOOLEAN :
          LET r == ingest_document(session, botly, loaded, embedded)
          IN /\ session' = r.session
             /\ botly' = r.botly
             /\ pc' = IF r.raised # "none" THEN "create_session_state"
                      ELSE "user_interaction_console"
             /\ step' = [op |-> "ingest_document", calls |-> r.calls, raised |-> r.raised]
    /\ UNCHANGED last

\* render_message_history (which only renders), then user_interaction_console
UserInteractionConsole(prompts, maxMessages) ==
    /\ pc = "user_interaction_console"
    /\ \E prompt \in prompts \cup { NoneText } :
          /\ prompt # NoneText => Len(session.messages) + 2 <= maxMessages
          /\ \E retrieved \in RetrievalResults(botly), generated \in GenerationResults :
                LET r == user_interaction_console(session, botly, prompt,
                                                  retrieved, generated)
                IN /\ Consulted(r.calls, retrieved, generated)
                   /\ session' = r.session
                   /\ botly' = r.botly
                   /\ step' = [op |-> "user_interaction_console", calls |-> r.calls,
                               raised |-> r.raised]
                   /\ last' = IF prompt = NoneText THEN last
                              ELSE [ op |-> "user_interaction_console",
                                     query |-> prompt,
                                     have_document |-> botly.have_document,
                                     calls |-> r.calls, raised |-> r.raised,
                                     response |-> r.response ]
    /\ pc' = "create_session_state"

\* a caller of the orchestrator's own entry point, between two runs of the script
BotlyReply(queries) ==
    /\ pc = "create_session_state"
    /\ \E query \in queries :
          \E retrieved \in RetrievalResults(botly), generated \in GenerationResults :
             LET r == botly_reply(botly, query, retrieved, generated)
             IN /\ Consulted(r.calls, retrieved, generated)
                /\ botly' = r.botly
                /\ step' = [op |-> "botly_reply", calls |-> r.calls, raised |-> r.raised]
                /\ last' = [ op |-> "botly_reply", query |-> query,
                             have_document |-> botly.have_document,
                             calls |-> r.calls, raised |-> r.raised,
                             response |-> r.response ]
    /\ UNCHANGED <<session, pc>>

Next ==
    \/ CreateSessionState
    \/ UploadDocument
    \/ SaveDocument
    \/ IngestDocument
    \/ UserInteractionConsole(Prompts, MaxMessages)
    \/ BotlyReply(Prompts)

Spec == Init /\ [][Next]_vars

----------------------------------------------------------------------------
(* Unit specification: one call of an entry point, on a session without a   *)
(* document or on the session a successful ingest of a one-chunk PDF        *)
(* leaves, with the inputs drawn from the larger sets.                      *)

IngestedOnce ==
    LET uploaded == upload_document(FreshSession, "doc.pdf")
        saved == save_document(uploaded, TRUE).session
    IN ingest_document(saved, FreshBotly, << Chunk(1) >>, TRUE)

InitUnit ==
    /\ \/ session = FreshSession /\ botly = FreshBotly
       \/ session = IngestedOnce.session /\ botly = IngestedOnce.botly
    /\ pc \in {"create_session_state", "user_interaction_console"}
    /\ step = NoStep
    /\ last = NoReply

\* a caller of Botly.format_documents
FormatDocuments(inputs) ==
    /\ pc = "create_session_state"
    /\ \E documents \in inputs :
          /\ botly' = format_documents(botly, documents)
          /\ step' = [ op |-> "format_documents",
                       calls |-> << Call("format_documents", documents,
                                         botly'.formated_context_documents, NoneText) >>,
                       raised |-> "none" ]
    /\ UNCHANGED <<session, pc, last>>

\* nothing was called yet
Pristine == step = NoStep /\ last = NoReply

NextUnit ==
    \/ Pristine /\ UserInteractionConsole(UnitQueries, 2)
    \/ Pristine /\ BotlyReply(UnitQueries)
    \/ Pristine /\ FormatDocuments(FormatInputs)

SpecUnit == InitUnit /\ [][NextUnit]_vars

----------------------------------------------------------------------------
(* Properties *)

\* a reply operation was performed
Replied == last.op # "none"
\* the lower-cased text of its query holds "@pdf"
MarkerQuery == Contains(Marker, Lower(last.query))

ChainCalls == {"normal_chain", "rag_chain"}

\* C1: a query whose lower-cased text contains "@pdf", answered while have_document
\* is false, gets exactly the fixed refusal string, by botly_reply and by the UI's
\* dispatch alike, with no invocation of either chain and no retrieval.
C1_RefusalWithoutDocument ==
    (Replied /\ MarkerQuery /\ ~last.have_document) =>
        /\ last.raised = "none"
        /\ last.response = Refusal
        /\ ~Made(last.calls, ChainCalls \cup {"retrieve"})

C1_Witness ==
    /\ last.op = "user_interaction_console"
    /\ MarkerQuery
    /\ ~last.have_document
    /\ session.messages[Len(session.messages)] = Turn("assistant", Refusal)

\* the calls of a reply to a query without the marker
C2_PlainCalls ==
    (Replied /\ ~MarkerQuery) =>
        last.calls = << Call("normal_chain", NoneDocs, Lower(last.query), NoneText) >>

\* a step that replies to a query without the marker leaves the index and the
\* last formatted context as they are
C2_PlainFrame ==
    (step'.op \in {"user_interaction_console", "botly_reply"}
        /\ ~Contains(Marker, Lower(last'.query)))
    => /\ botly'.vector_store = botly.vector_store
       /\ botly'.formated_context_documents = botly.formated_context_documents

\* C2: a query without the marker, in either state, runs the plain pipeline: the
\* normal chain is invoked exactly once, with the lower-cased query as its only
\* content variable; the RAG chain is not invoked, the index is not queried, and
\* neither vector_store nor formated_context_documents changes.
C2_PlainPipeline == []C2_PlainCalls /\ [][C2_PlainFrame]_vars

C2_Witness ==
    /\ Replied
    /\ ~MarkerQuery
    /\ last.have_document
    /\ last.query # Lower(last.query)
    /\ botly.formated_context_documents # NoneText
    /\ last.raised = "none"

\* C3: a reply never raises to its caller and always hands back a string (an
\* apology when an inner stage failed).
C3_ReplyNeverRaises ==
    Replied => (last.raised = "none" /\ last.response # NoneText)

\* the latest reply operation's retrieval returned at least one document
RetrievedNonEmpty ==
    \E i \in 1..Len(last.calls) :
        /\ last.calls[i].op = "retrieve"
        /\ last.calls[i].documents # NoneDocs
        /\ last.calls[i].documents # <<>>

Retrieved ==
    \E i \in 1..Len(last.calls) :
        last.calls[i].op = "retrieve" /\ last.calls[i].documents # NoneDocs

C5_DocumentReadyHasIndex ==
    /\ botly.have_document =>
          /\ botly.documents # NoneDocs
          /\ botly.vector_store # NoneDocs
          /\ botly.vector_store = botly.documents
    /\ step.raised # "as_retriever"
    /\ Made(step.calls, {"retrieve"}) => botly.vector_store # NoneDocs

C5_Witness ==
    /\ botly.have_document
    /\ step.op = "user_interaction_console"
    /\ Made(step.calls, {"retrieve"})
    /\ Len(botly.vector_store) = MaxChunks

\* one step, seen from the state before it
C6_Step ==
    /\ (~botly.have_document /\ botly'.have_document) =>
          /\ step'.op = "ingest_document"
          /\ step'.raised = "none"
          /\ Made(step'.calls, {"vector_store_generator"})
          /\ botly'.vector_store # NoneDocs
    /\ botly.have_document =>
          /\ botly'.have_document
          /\ botly'.vector_store = botly.vector_store
          /\ botly'.documents = botly.documents
          /\ ~Made(step'.calls, {"document_consumer", "vector_store_generator"})

\* C6: have_document turns true only in an ingest step that built the index, and
\* from then on it stays true, the documents and the index stay as they are, and
\* no step runs document_consumer or vector_store_generator again.
C6_DocumentReadyOnce == [][C6_Step]_vars

\* a later run of the script reached ingest_document with the document ingested
C6_Witness ==
    /\ botly.have_document
    /\ step.op = "ingest_document"
    /\ step.calls = <<>>
    /\ Len(session.messages) > 0

\* C7: an ingest in which document_consumer or vector_store_generator raised ends
\* the run with have_document and document_ingested false and vector_store None;
\* while have_document is false the index is None, and a marker query answered
\* then gets the fixed refusal.
C7_FailedIngestLeavesNoDocument ==
    /\ (step.op = "ingest_document" /\ step.raised # "none") =>
          /\ step.raised \in {"document_consumer", "vector_store_generator"}
          /\ ~botly.have_document
          /\ ~session.document_ingested
          /\ botly.vector_store = NoneDocs
          /\ pc = "create_session_state"
    /\ ~botly.have_document => botly.vector_store = NoneDocs
    /\ (Replied /\ MarkerQuery /\ botly.vector_store = NoneDocs) =>
          (last.response = Refusal /\ last.calls = <<>>)

C7_Witness ==
    /\ step.op = "ingest_document"
    /\ step.raised = "vector_store_generator"
    /\ botly.documents # NoneDocs
    /\ Len(botly.documents) = MaxChunks
    /\ Replied

\* the text holds "@pdf" at some position, each letter in either case
HasMarkerAnyCase(text) ==
    \E i \in 0..(Len(text) - 4) :
        /\ text[i + 1] = "@"
        /\ text[i + 2] \in {"p", "P"}
        /\ text[i + 3] \in {"d", "D"}
        /\ text[i + 4] \in {"f", "F"}

\* C8: with have_document true, a reply runs the RAG pipeline (retrieval, then the
\* RAG chain) if and only if its query holds "@pdf" in any letter case at any
\* position, and the plain pipeline otherwise.
C8_MarkerSelectsRag ==
    (Replied /\ last.have_document) =>
        /\ Made(last.calls, {"retrieve"}) <=> HasMarkerAnyCase(last.query)
        /\ Made(last.calls, {"normal_chain"}) <=> ~HasMarkerAnyCase(last.query)
        /\ Made(last.calls, {"rag_chain"}) => HasMarkerAnyCase(last.query)

C8_Witness ==
    /\ last.op = "user_interaction_console"
    /\ last.have_document
    /\ last.query = <<"x", "@", "P", "d", "F", "x">>
    /\ last.raised = "none"
    /\ Made(last.calls, {"rag_chain"})

\* the first n texts, in order, with "\n\n" between each two
RECURSIVE Joined(_, _)
Joined(documents, n) ==
    IF n = 0 THEN <<>>
    ELSE IF n = 1 THEN documents[1]
    ELSE Joined(documents, n - 1) \o <<"\n", "\n">> \o documents[n]

FormatCalls(calls) == { i \in 1..Len(calls) : calls[i].op = "format_documents" }

\* C9: format_documents yields the texts of its documents in input order with
\* exactly two newlines between each two: "" for no document, the text itself for
\* one, c1 + "\n\n" + c2 for two; nothing leads, nothing trails.
C9_FormatJoinsWithBlankLine ==
    /\ \A i \in FormatCalls(step.calls) :
          LET d == step.calls[i].documents
              out == step.calls[i].context
          IN /\ out = Joined(d, Len(d))
             /\ Len(d) = 0 => out = <<>>
             /\ Len(d) = 1 => out = d[1]
             /\ Len(d) = 2 => out = d[1] \o <<"\n", "\n">> \o d[2]
    /\ FormatCalls(step.calls) # {} =>
          botly.formated_context_documents =
              step.calls[CHOOSE i \in FormatCalls(step.calls) : TRUE].context

C9_Witness ==
    /\ step.op = "format_documents"
    /\ Len(step.calls[1].documents) = MaxFormatDocs
    /\ step.calls[1].documents[1] = <<"b", "\n">>
    /\ step.calls[1].documents[2] = <<>>
    /\ botly.formated_context_documents # NoneText

IsPrefix(s, u) == Len(s) <= Len(u) /\ SubSeq(u, 1, Len(s)) = s

\* every turn is a user turn or an assistant turn
C10_Roles ==
    \A i \in 1..Len(session.messages) : session.messages[i].role \in {"user", "assistant"}

\* C10: session.messages only grows at its end: each step leaves the turns it
\* found, in place and unchanged, and every turn is a user or an assistant turn.
C10_MessagesAppendOnly ==
    []C10_Roles /\ [][IsPrefix(session.messages, session.messages')]_vars

C10_Witness ==
    /\ Len(session.messages) = MaxMessages
    /\ pc = "upload_document"

\* the latest reply operation ran the three RAG stages, in order, on its own query
RagStagesInOrder ==
    /\ Len(last.calls) = 3
    /\ last.calls[1].op = "retrieve"
    /\ last.calls[1].question = Lower(last.query)
    /\ last.calls[1].documents # NoneDocs
    /\ last.calls[2].op = "format_documents"
    /\ last.calls[2].documents = last.calls[1].documents
    /\ last.calls[3].op = "rag_chain"
    /\ last.calls[3].question = Lower(last.query)
    /\ last.calls[3].context =
          Joined(last.calls[1].documents, Len(last.calls[1].documents))

\* C11: a marker query answered with have_document true runs retrieval, then the
\* context formatting, then the RAG chain, and the context the chain gets is the
\* formatted result of that query's own retrieval, whatever earlier queries left
\* in formated_context_documents; it is also what the field holds afterwards.
C11_RagContextIsFresh ==
    /\ Made(last.calls, {"rag_chain"}) => RagStagesInOrder
    /\ (Replied /\ MarkerQuery /\ last.have_document /\ last.raised = "none")
          => RagStagesInOrder
    /\ (step.op \in {"user_interaction_console", "botly_reply"}
          /\ Made(step.calls, {"rag_chain"}))
          => botly.formated_context_documents = last.calls[3].context

\* a second marker query, answered after a first one, whose retrieval ranked the
\* chunks in another order
C11_Witness ==
    /\ Len(session.messages) = 4
    /\ Contains(Marker, Lower(session.messages[1].content))
    /\ session.messages[2].role = "assistant"
    /\ last.op = "user_interaction_console"
    /\ last.query = session.messages[3].content
    /\ MarkerQuery
    /\ last.have_document
    /\ last.raised = "none"
    /\ RagStagesInOrder
    /\ last.calls[1].documents = << Chunk(2), Chunk(1) >>
    /\ last.calls[3].context = Chunk(2) \o <<"\n", "\n">> \o Chunk(1)

\* the queries the two dispatchers are compared on: the session's prompts, the bare
\* marker, the marker in capitals inside a text, and a text that misses it by a
\* character
EquivalenceQueries ==
    Prompts \cup { <<"@", "p", "d", "f">>, <<"@", "P", "D", "F", "x">>,
                   <<"p", "d", "f">> }

\* botly_reply and the UI's dispatch, given the same object, query and library
\* results, make the same calls, raise at the same stage, give the same response
\* and leave the same fields, but for Botly.reply, which only botly_reply sets
SameDispatch(b, query, retrieved, generated) ==
    LET api == botly_reply(b, query, retrieved, generated)
        ui == console_reply(b, query, retrieved, generated)
    IN /\ api.calls = ui.calls
       /\ api.raised = ui.raised
       /\ api.response = ui.response
       /\ [api.botly EXCEPT !.reply = b.reply] = ui.botly

\* C12: whenever a run of the script reaches the console, with whatever orchestrator
\* the session then holds, for every query and every result of the retriever and
\* the model, the UI's inline dispatch and botly_reply select the same branch, make
\* the same retrieval and chain invocations with the same arguments, and produce
\* the same response.
C12_DispatchersAgree ==
    pc = "user_interaction_console" =>
        \A query \in EquivalenceQueries :
            \A retrieved \in RetrievalResults(botly), generated \in GenerationResults :
                SameDispatch(botly, query, retrieved, generated)

\* botly_reply answered, by the RAG pipeline, the query the UI had answered before
C12_Witness ==
    /\ Len(session.messages) >= 2
    /\ last.op = "botly_reply"
    /\ last.have_document
    /\ last.raised = "none"
    /\ Made(last.calls, {"rag_chain"})
    /\ last.query = session.messages[1].content
    /\ session.messages[2] = Turn("assistant", last.response)
    /\ botly.formated_context_documents # <<>>

\* the order of the document flags
C13_FlagsOrdered ==
    /\ session.document_ingested => session.document_saved
    /\ session.document_saved => session.document_uploaded
    /\ session.document_saved => session.document_path # NonePath
    /\ session.document_uploaded => session.document # None
    /\ botly.have_document = session.document_ingested

\* no step takes a flag from true to false
C13_FlagsOnlyRise ==
    /\ session.document_uploaded => session'.document_uploaded
    /\ session.document_saved => session'.document_saved
    /\ session.document_ingested => session'.document_ingested
    /\ botly.have_document => botly'.have_document

\* C13: in every reachable state document_ingested implies document_saved,
\* document_saved implies document_uploaded with document and document_path set,
\* and botly.have_document equals document_ingested; and every step leaves a flag
\* that is true true.
C13_DocumentFlags == []C13_FlagsOrdered /\ [][C13_FlagsOnlyRise]_vars

\* the ingest has just set the last two flags, on top of the upload and the save
C13_Witness ==
    /\ step.op = "ingest_document"
    /\ step.raised = "none"
    /\ session.document_uploaded
    /\ session.document_saved
    /\ session.document_ingested
    /\ botly.have_document
    /\ session.document \in Files
    /\ session.document_path = PathOf(session.id)

\* the roles of session.messages alternate, from a user turn on
C14_Alternates ==
    \A i \in 1..Len(session.messages) :
        session.messages[i].role = IF i % 2 = 1 THEN "user" ELSE "assistant"

\* a run of the console that took a prompt appended the user turn with the prompt
\* as typed and, right after it, the assistant turn with the response
C14_PromptAddsPair ==
    (pc = "user_interaction_console" /\ last' # last)
        => session'.messages = session.messages
                                  \o << Turn("user", last'.query),
                                        Turn("assistant", last'.response) >>

\* C14: session.messages strictly alternates user, assistant, ... from a user turn
\* on, and every submitted prompt adds one user turn with the raw prompt followed
\* at once by one assistant turn with the response, so that no user turn is left
\* without its reply when the next one is appended.
C14_TurnsAlternate == []C14_Alternates /\ [][C14_PromptAddsPair]_vars

====
